---- MODULE Spec2Model ----
(***************************************************************************)
(* A model of src/src/blockchain.js: the Blockchain class, an in-memory    *)
(* ledger of hash-linked blocks with a signed, time-boxed submission path. *)
(*                                                                         *)
(* JavaScript runs every promise executor synchronously up to its first    *)
(* await.  _addBlock therefore has two atomic steps: everything up to and  *)
(* including the (synchronous) execution of validateChain, and the         *)
(* continuation after `await`, which either pops the chain or resolves.    *)
(* Any other synchronous code (another call, a read, a write to a block    *)
(* object) may run between the two.                                        *)
(***************************************************************************)
EXTENDS Integers, Sequences, FiniteSets, TLC

\* ---------------------------------------------------------------- bounds
MaxCalls == 2       \* appends started after the genesis block
MaxSubmits == 1     \* appends a caller of arbitrary challenges gets through
MaxWrites == 2      \* out-of-band writes to block objects

\* ------------------------------------------------------ program constants
FreshnessWindow == 300

\* Every call of _addBlock creates one promise and pushes one block object;
\* both carry the call's number.  Call 0 is the constructor's.
Calls == 0..MaxCalls

\* Clock readings (milliseconds since the epoch) the model runs through.
Instants == {1000000, 1000999, 1001000}

Addresses == {<<"A">>, <<"B">>}

Stars == {"s1", "s2"}

\* Age (seconds) of the challenge a caller submits; a negative age is a
\* timestamp in the future.
Ages == {-1, 299, 300}

VARIABLES
    chain,      \* this.chain: the array of block objects
    height,     \* this.height
    now,        \* new Date().getTime()
    calls,      \* per call of _addBlock: where its promise stands
    nextId,     \* number of the next call of _addBlock
    writes,     \* number of out-of-band writes so far
    seen,       \* blocks a read returned while their rollback was pending
    ret,        \* what the step just taken delivered to its caller, if anything
    nResolved,  \* number of star appends that resolved
    batch       \* the appends in flight together: the chain they started
                \* from, the first of them, whether a write fell among them

vars == <<chain, height, now, calls, nextId, writes, seen, ret, nResolved, batch>>

\* whether an out-of-band write has happened
tampered == writes > 0

\* ------------------------------------------------------------- strings
\* A JavaScript string is a sequence of one-character strings.
DigitChars == <<"0", "1", "2", "3", "4", "5", "6", "7", "8", "9">>

IsDigit(c) == \E d \in 1..10 : DigitChars[d] = c

DigitVal(c) == (CHOOSE d \in 1..10 : DigitChars[d] = c) - 1

RECURSIVE NumberToString(_)
\* Number.prototype.toString for an integer
NumberToString(n) ==
    IF n < 0 THEN <<"-">> \o NumberToString(0 - n)
    ELSE IF n < 10 THEN <<DigitChars[n + 1]>>
    ELSE NumberToString(n \div 10) \o <<DigitChars[(n % 10) + 1]>>

\* s.slice(0, -3)
SliceSeconds(s) == SubSeq(s, 1, Len(s) - 3)

\* new Date().getTime().toString().slice(0, -3)
SecondsString(ms) == SliceSeconds(NumberToString(ms))

NaN == [nan |-> TRUE, val |-> 0]

Num(n) == [nan |-> FALSE, val |-> n]

RECURSIVE DigitsValue(_, _, _)
\* value of the longest run of digits of s starting at position i
DigitsValue(s, i, acc) ==
    IF i > Len(s) \/ ~IsDigit(s[i]) THEN acc
    ELSE DigitsValue(s, i + 1, acc * 10 + DigitVal(s[i]))

\* parseInt(s): an optional sign, then the longest prefix of digits; NaN
\* when there is no digit.
ParseInt(s) ==
    LET signed == Len(s) > 0 /\ s[1] \in {"-", "+"}
        first == IF signed THEN 2 ELSE 1
    IN  IF first > Len(s) \/ ~IsDigit(s[first]) THEN NaN
        ELSE IF signed /\ s[1] = "-" THEN Num(0 - DigitsValue(s, first, 0))
        ELSE Num(DigitsValue(s, first, 0))

RECURSIVE SplitFrom(_, _, _)
SplitFrom(s, i, cur) ==
    IF i > Len(s) THEN <<cur>>
    ELSE IF s[i] = ":" THEN <<cur>> \o SplitFrom(s, i + 1, <<>>)
    ELSE SplitFrom(s, i + 1, Append(cur, s[i]))

\* s.split(':')
Split(s) == SplitFrom(s, 1, <<>>)

\* String(undefined), which is what parseInt makes of a missing field
UndefinedString == <<"u", "n", "d", "e", "f", "i", "n", "e", "d">>

\* a[i] of a JavaScript array (0-based), as parseInt will read it
FieldAt(a, i) == IF i + 1 <= Len(a) THEN a[i + 1] ELSE UndefinedString

StarRegistry == <<"s", "t", "a", "r", "R", "e", "g", "i", "s", "t", "r", "y">>

\* requestMessageOwnershipVerification(address) at clock reading ms
RequestMessage(address, ms) ==
    address \o <<":">> \o SecondsString(ms) \o <<":">> \o StarRegistry

\* ---------------------------------------------------------------- blocks
NullHash == [sha |-> <<>>]

\* Block's constructor stores the data encoded; getBData decodes it.
Encode(data) == [hex |-> data]

Decode(body) == body.hex

GenesisData == [data |-> "Genesis Block"]

\* SHA256(JSON.stringify(block)) over the block's fields; the hash field is
\* still null when it is taken.  Distinct inputs give distinct digests.
Sha(b) == [sha |-> <<b.height, b.time, b.previousBlockHash, b.body>>]

\* Block.validate(): recompute the digest from the current fields, the hash
\* field excluded, and compare it with the stored hash.
BlockValidate(b) == b.hash = Sha(b)

\* _getLatestBlock()
GetLatestBlock(ch) == ch[Len(ch)]

\* _addBlock lines 68-73 with the hash taken before time and previous hash
\* are assigned
AssignFieldsHashFirst(ch, h, id, data, ms) ==
    LET b0 == [id |-> id, height |-> h + 1, time |-> <<"0">>,
               previousBlockHash |-> NullHash, body |-> Encode(data),
               hash |-> NullHash]
    IN  [b0 EXCEPT !.hash = Sha(b0),
                   !.time = SecondsString(ms),
                   !.previousBlockHash =
                       IF h >= 0 THEN GetLatestBlock(ch).hash ELSE NullHash]

\* _addBlock lines 68-73 with the previous hash read from the first block
AssignFieldsLinkFirst(ch, h, id, data, ms) ==
    LET b0 == [id |-> id, height |-> h + 1, time |-> SecondsString(ms),
               previousBlockHash |->
                   IF h >= 0 THEN ch[1].hash ELSE NullHash,
               body |-> Encode(data), hash |-> NullHash]
    IN  [b0 EXCEPT !.hash = Sha(b0)]

\* _addBlock lines 68-73: height, time, previous hash, then the hash
AssignFields(ch, h, id, data, ms) ==
    LET b0 == [id |-> id, height |-> h + 1, time |-> SecondsString(ms),
               previousBlockHash |->
                   IF h >= 0 THEN GetLatestBlock(ch).hash ELSE NullHash,
               body |-> Encode(data), hash |-> NullHash]
    IN  [b0 EXCEPT !.hash = Sha(b0)]

\* -------------------------------------------------------- validateChain
BrokenLink(b) == [kind |-> "broken", height |-> b.height, block |-> b.id]

NotValid(b) == [kind |-> "notvalid", height |-> b.height, block |-> b.id]

\* the forEach callback without the call of b.validate()
BlockErrorsLinksOnly(ch, i) ==
    LET b == ch[i]
    IN  IF b.height > 0 /\ b.previousBlockHash # ch[b.height].hash
        THEN <<BrokenLink(b)>> ELSE <<>>

\* what the forEach callback pushes for the block at (1-based) position i
BlockErrors(ch, i) ==
    LET b == ch[i]
    IN  (IF b.height > 0 /\ b.previousBlockHash # ch[b.height].hash
         THEN <<BrokenLink(b)>> ELSE <<>>)
        \o (IF ~BlockValidate(b) THEN <<NotValid(b)>> ELSE <<>>)

RECURSIVE ErrorLogFrom(_, _)
ErrorLogFrom(ch, i) ==
    IF i > Len(ch) THEN <<>> ELSE BlockErrors(ch, i) \o ErrorLogFrom(ch, i + 1)

\* self.chain[b.height - 1] is undefined for some block: reading its hash
\* throws inside the executor and the promise never settles
ValidateThrows(ch) ==
    \E i \in 1..Len(ch) : ch[i].height > 0 /\ ch[i].height > Len(ch)

ValidMessage == [settled |-> TRUE, isArray |-> FALSE, log |-> <<>>]

\* The value validateChain's promise resolves with.
ValidateChain(ch) ==
    IF ValidateThrows(ch) THEN [settled |-> FALSE, isArray |-> FALSE, log |-> <<>>]
    ELSE IF Len(ErrorLogFrom(ch, 1)) > 0
         THEN [settled |-> TRUE, isArray |-> TRUE, log |-> ErrorLogFrom(ch, 1)]
         ELSE ValidMessage

\* Array.isArray(errorLog) && errorLog.length > 0
IsViolationList(e) == e.isArray /\ Len(e.log) > 0

\* ------------------------------------------------------------ submitStar
\* a - b and a >= n on JavaScript numbers: NaN makes every comparison false
Minus(a, b) == IF a.nan \/ b.nan THEN NaN ELSE Num(a.val - b.val)

AtLeast(a, n) == ~a.nan /\ a.val >= n

\* parseInt(message.split(':')[1])
MessageTime(message) == ParseInt(FieldAt(Split(message), 1))

\* parseInt(new Date().getTime().toString().slice(0, -3))
CurrentTime(ms) == ParseInt(SecondsString(ms))

\* line 139 with > in place of >=
ChallengeExpiredStrict(message, ms) ==
    AtLeast(Minus(CurrentTime(ms), MessageTime(message)), FreshnessWindow + 1)

\* line 139: currentTime - time >= 300
ChallengeExpired(message, ms) ==
    AtLeast(Minus(CurrentTime(ms), MessageTime(message)), FreshnessWindow)

\* A signature names who signed and what was signed; a malformed one
\* cannot be decoded.
Sign(address, message) == [ok |-> TRUE, signer |-> address, msg |-> message]

MalformedSignature == [ok |-> FALSE, signer |-> <<>>, msg |-> <<>>]

\* bitcoinMessage.verify(message, address, signature): true, false, or an
\* exception on a signature it cannot decode
Verify(message, address, signature) ==
    IF ~signature.ok THEN "throws"
    ELSE IF signature.signer = address /\ signature.msg = message THEN "true"
    ELSE "false"

ExpiredError == "The time for validate the signature has expired, try to get a new verification message"

InvalidSignatureError == "The message validation is failed! Validate your input and try again"

\* e.message of the exception bitcoinMessage.verify throws
MalformedError == "Invalid signature length"

\* lines 139-149 with the result of verify not tested
SubmitDecisionNoVerify(address, message, signature, ms) ==
    IF ChallengeExpired(message, ms) THEN "expired"
    ELSE IF Verify(message, address, signature) = "throws" THEN "malformed"
    ELSE "append"

\* lines 139-149: which way submitStar goes
SubmitDecision(address, message, signature, ms) ==
    IF ChallengeExpired(message, ms) THEN "expired"
    ELSE IF Verify(message, address, signature) = "throws" THEN "malformed"
    ELSE IF Verify(message, address, signature) = "true" THEN "append"
    ELSE "invalid"

\* line 144 with the star left out of the block's data
StarDataNoStar(address, message, star) ==
    [address |-> address, message |-> message, star |-> "none"]

\* line 144: {address, message, star}
StarData(address, message, star) ==
    [address |-> address, message |-> message, star |-> star]

\* ------------------------------------------------------------- promises
NotCalled == [pc |-> "new"]

\* a settled promise: resolved with the block (ok) or rejected
Settled(ok) == [pc |-> "done", ok |-> ok]

NoRet == [op |-> "none", kind |-> "none", tag |-> "none"]

InFlight == {c \in Calls : calls[c].pc = "await"}

\* reject(message) of submitStar, lines 140, 146 and 148
SubmitRejection(d) ==
    [op |-> "submitStar", kind |-> "rejected", tag |-> "error",
     value |-> CASE d = "expired" -> ExpiredError
                 [] d = "malformed" -> MalformedError
                 [] OTHER -> InvalidSignatureError,
     verifyCalled |-> d # "expired"]

\* -------------------------------------------------------------- _addBlock
\* line 75 left out
NextHeightStuck(h) == h

\* self.height++, line 75
NextHeight(h) == h + 1

\* Lines 68-76: assign the fields, hash, push, height++, and run
\* validateChain, whose executor has no await and so completes within the
\* same step.  The call is left waiting at the await of line 76.
AddBlock(op, data, args) ==
    LET b == AssignFields(chain, height, nextId, data, now)
        pushed == Append(chain, b)
    IN  /\ chain' = pushed
        /\ height' = NextHeight(height)
        /\ nextId' = nextId + 1
        /\ batch' = IF InFlight = {}
                    THEN [base |-> [i \in 1..Len(chain) |-> chain[i].id],
                          first |-> nextId, clean |-> TRUE]
                    ELSE batch
        /\ calls' = [q \in Calls |->
                IF q = nextId
                THEN [pc |-> "await", op |-> op, block |-> b,
                      errorLog |-> ValidateChain(pushed),
                      preChain |-> chain, preHeight |-> height,
                      alone |-> InFlight = {}, quiet |-> TRUE, args |-> args]
                ELSE IF calls[q].pc = "await"
                     THEN [calls[q] EXCEPT !.alone = FALSE]
                     ELSE calls[q]]

\* lines 82-83 with the pop left out
PopKeep(ch) == ch

\* self.chain.pop(), line 82
Pop(ch) == IF Len(ch) = 0 THEN ch ELSE SubSeq(ch, 1, Len(ch) - 1)

\* line 83 left out
PrevHeightStuck(h) == h

\* self.height--, line 83
PrevHeight(h) == h - 1

\* reject(errorLog) or resolve(block), lines 84 and 86, for the call c
AddBlockOutcome(c) ==
    IF IsViolationList(c.errorLog)
    THEN [op |-> c.op, kind |-> "rejected", tag |-> "violations",
          value |-> c.errorLog.log, alone |-> c.alone]
    ELSE [op |-> c.op, kind |-> "resolved", tag |-> "block",
          value |-> c.block, alone |-> c.alone]

\* Lines 77-86: the continuation after the await.  A violation list pops
\* the chain, decrements the height and rejects; anything else resolves
\* with the block.  The continuations are jobs of the microtask queue,
\* which runs them in the order the awaits were reached.
Settle(p) ==
    /\ calls[p].pc = "await"
    /\ \A q \in InFlight : p <= q
    /\ calls[p].errorLog.settled
    /\ IF IsViolationList(calls[p].errorLog)
       THEN /\ chain' = Pop(chain)
            /\ height' = PrevHeight(height)
            /\ nResolved' = nResolved
       ELSE /\ UNCHANGED <<chain, height>>
            /\ nResolved' = IF calls[p].op = "submitStar"
                            THEN nResolved + 1 ELSE nResolved
    /\ ret' = AddBlockOutcome(calls[p])
    /\ calls' = [calls EXCEPT ![p] = Settled(~IsViolationList(calls[p].errorLog))]
    /\ UNCHANGED <<now, nextId, writes, seen, batch>>

\* submitStar(address, message, signature, star), lines 133-151.  Its
\* executor runs without a pause into _addBlock's first step.
SubmitStar(address, message, signature, star) ==
    LET d == SubmitDecision(address, message, signature, now)
    IN  /\ IF d = "append"
           THEN /\ nextId <= MaxCalls
                /\ AddBlock("submitStar", StarData(address, message, star),
                            [address |-> address, message |-> message,
                             signature |-> signature, star |-> star])
                /\ ret' = NoRet
                /\ UNCHANGED <<now, writes, seen, nResolved>>
           ELSE /\ ret' = SubmitRejection(d)
                /\ UNCHANGED <<chain, height, now, calls, nextId,
                               writes, seen, nResolved, batch>>

\* line 37 with the test left out
NoGenesisYetAlways(h) == TRUE

\* this.height === -1, line 37
NoGenesisYet(h) == h = -1

\* what a call of initializeChain that appended nothing delivers
NothingAppended == [op |-> "initializeChain", kind |-> "resolved", tag |-> "nothing"]

\* initializeChain() called again, lines 36-41: it appends the genesis block
\* when the height is -1 and does nothing otherwise.
InitializeChain ==
    IF NoGenesisYet(height)
    THEN /\ nextId <= MaxCalls
         /\ AddBlock("initializeChain", GenesisData, GenesisData)
         /\ ret' = NoRet
         /\ UNCHANGED <<now, writes, seen, nResolved>>
    ELSE /\ ret' = NothingAppended
         /\ UNCHANGED <<chain, height, now, calls, nextId, writes, seen, nResolved, batch>>

\* ------------------------------------------------------------------ reads
NotFound == [id |-> -1]

\* self.chain.filter(p => p.height === h)[0], or the not-found string
BlockByHeight(ch, h) ==
    LET hits == {i \in 1..Len(ch) : ch[i].height = h}
    IN  IF hits = {} THEN NotFound
        ELSE ch[CHOOSE i \in hits : \A j \in hits : i <= j]

\* self.chain.filter(b => b.hash === hash)[0], or the not-found string
BlockByHash(ch, hash) ==
    LET hits == {i \in 1..Len(ch) : ch[i].hash = hash}
    IN  IF hits = {} THEN NotFound
        ELSE ch[CHOOSE i \in hits : \A j \in hits : i <= j]

\* identities of the blocks whose append is in flight and will roll back
Doomed ==
    {calls[p].block.id : p \in {q \in InFlight : IsViolationList(calls[q].errorLog)}}

\* getBlockByHeight(h), lines 176-186.  seen keeps the identity of a block
\* that was returned while the append that pushed it was about to roll back.
GetBlockByHeight(h) ==
    /\ seen' = seen \cup ({BlockByHeight(chain, h).id} \cap Doomed)
    /\ ret' = NoRet
    /\ UNCHANGED <<chain, height, now, calls, nextId, writes, nResolved, batch>>

\* getBlockByHash(hash), lines 159-169
GetBlockByHash(hash) ==
    /\ seen' = seen \cup ({BlockByHash(chain, hash).id} \cap Doomed)
    /\ ret' = NoRet
    /\ UNCHANGED <<chain, height, now, calls, nextId, writes, nResolved, batch>>

\* JavaScript values an entry's owner may be: a string, or undefined when
\* the decoded data has no address
Str(s) == [type |-> "string", val |-> s]

Undefined == [type |-> "undefined", val |-> <<>>]

\* data.address and data.star of the decoded payload
OwnerOf(data) ==
    IF "address" \in DOMAIN data THEN Str(data.address) ELSE Undefined

StarOf(data) == IF "star" \in DOMAIN data THEN data.star ELSE "undefined"

\* the star {} of the entry made for the genesis block
EmptyStar == "{}"

\* lines 200-209: what the map callback returns for block b
StarEntry(b) ==
    IF b.height > 0
    THEN [owner |-> OwnerOf(Decode(b.body)), star |-> StarOf(Decode(b.body))]
    ELSE [owner |-> Str(<<>>), star |-> EmptyStar]

StarEntries(ch) == [i \in 1..Len(ch) |-> StarEntry(ch[i])]

NoStars == [found |-> FALSE, list |-> <<>>]

\* lines 198-217: map over the chain, filter by owner === address, and the
\* no-stars string for an empty list
StarsByWallet(ch, address) ==
    LET owned(e) == e.owner = Str(address)
        blocks == SelectSeq(StarEntries(ch), owned)
    IN  IF Len(blocks) > 0 THEN [found |-> TRUE, list |-> blocks] ELSE NoStars

\* getStarsByWalletAddress(address), lines 194-222: the callbacks of map
\* decode every block before the first await, so the entries are those of
\* the chain as it is at the call.
GetStarsByWalletAddress(address) ==
    /\ StarsByWallet(chain, address).found \in BOOLEAN
    /\ ret' = NoRet
    /\ UNCHANGED <<chain, height, now, calls, nextId, writes, seen, nResolved, batch>>

\* validateChain() called from outside, lines 230-252: a read of the chain
ValidateChainCall ==
    /\ ValidateChain(chain).settled \in BOOLEAN
    /\ ret' = NoRet
    /\ UNCHANGED <<chain, height, now, calls, nextId, writes, seen, nResolved, batch>>

\* getChainHeight(), lines 46-50: the height returned counts the block on
\* top of the chain.
GetChainHeight ==
    /\ seen' = seen \cup ({BlockByHeight(chain, height).id} \cap Doomed)
    /\ ret' = NoRet
    /\ UNCHANGED <<chain, height, now, calls, nextId, writes, nResolved, batch>>

\* ------------------------------------------------------------ environment
\* The clock moves on.  The continuation after an await on a settled
\* promise runs as a microtask, in the same turn of the event loop as the
\* step before it; the clock is read as constant within a turn.
Tick ==
    /\ InFlight = {}
    /\ \E t \in Instants : t > now /\ now' = t
    /\ ret' = NoRet
    /\ UNCHANGED <<chain, height, calls, nextId, writes, seen, nResolved, batch>>

CorruptHash == [sha |-> <<"corrupt">>]

CorruptBody == Encode([data |-> "corrupt"])

\* the block object b after a write of v to one of its fields
Written(b, field, v) ==
    IF field = "hash" THEN [b EXCEPT !.hash = v] ELSE [b EXCEPT !.body = v]

\* Out-of-band mutation: code outside the class writes the stored hash or
\* the payload of the block object at position k.  Every reference to the
\* object sees the write.  The model follows one damage at a time: a write
\* either damages a consistent chain or repairs the damaged one.
Tamper(k, field, v) ==
    /\ writes < MaxWrites
    /\ k \in 1..Len(chain)
    /\ Written(chain[k], field, v) # chain[k]
    /\ \/ ValidateChain(chain) = ValidMessage
       \/ ValidateChain([chain EXCEPT ![k] = Written(chain[k], field, v)]) = ValidMessage
    /\ chain' = [chain EXCEPT ![k] = Written(chain[k], field, v)]
    /\ calls' = [q \in Calls |->
            IF calls[q].pc = "await"
            THEN [calls[q] EXCEPT
                    !.quiet = FALSE,
                    !.block = IF calls[q].block.id = chain[k].id
                              THEN Written(calls[q].block, field, v)
                              ELSE calls[q].block]
            ELSE calls[q]]
    /\ writes' = writes + 1
    /\ batch' = IF InFlight = {} THEN batch ELSE [batch EXCEPT !.clean = FALSE]
    /\ ret' = NoRet
    /\ UNCHANGED <<height, now, nextId, seen, nResolved>>

\* values an out-of-band write may store: a wrong one, for the hash the
\* digest of the block as it now is, for the payload of the genesis block
\* the one it was built with
TamperValues(b, field) ==
    IF field = "hash" THEN {CorruptHash, Sha(b)}
    ELSE IF b.height = 0 THEN {CorruptBody, Encode(GenesisData)}
    ELSE {CorruptBody}

TamperAny ==
    \E k \in 1..Len(chain), f \in {"hash", "body"} :
        \E v \in TamperValues(chain[k], f) : Tamper(k, f, v)

\* ------------------------------------------------------------ the system
StartMs == CHOOSE t \in Instants : \A u \in Instants : t <= u

\* constructor, lines 25-29: the empty chain, height -1, and
\* initializeChain run up to the await inside _addBlock
Init ==
    LET g == AssignFields(<<>>, -1, 0, GenesisData, StartMs)
    IN  /\ chain = <<g>>
        /\ height = 0
        /\ now = StartMs
        /\ calls = [q \in Calls |->
                IF q = 0
                THEN [pc |-> "await", op |-> "initializeChain", block |-> g,
                      errorLog |-> ValidateChain(<<g>>),
                      preChain |-> <<>>, preHeight |-> -1,
                      alone |-> TRUE, quiet |-> TRUE, args |-> GenesisData]
                ELSE NotCalled]
        /\ nextId = 1
        /\ writes = 0
        /\ seen = {}
        /\ ret = NoRet
        /\ nResolved = 0
        /\ batch = [base |-> <<>>, first |-> 0, clean |-> TRUE]

\* the challenges a caller may hand in at clock reading ms: issued some
\* seconds ago (or ahead), with a time field that is no number, and with
\* no time field at all
Messages(address, ms) ==
    {RequestMessage(address, ms - 1000 * g) : g \in Ages}
        \cup {address \o <<":", "x", ":">> \o StarRegistry, address}

Signatures(message) ==
    {Sign(a, message) : a \in Addresses} \cup {MalformedSignature}

\* an honest caller signs the challenge it has just requested
Honest == <<"A">>

HonestStar == "s1"

HonestSubmit ==
    SubmitStar(Honest, RequestMessage(Honest, now),
               Sign(Honest, RequestMessage(Honest, now)), HonestStar)

\* the hashes a reader may ask for: those stored in the chain and one that
\* no block was given
QueryHashes == {chain[i].hash : i \in 1..Len(chain)} \cup {NullHash}

\* the addresses a reader may ask for, the empty string among them
QueryAddresses == Addresses \cup {<<>>}

GetAnyBlockByHash == \E hash \in QueryHashes : GetBlockByHash(hash)

\* Concurrent honest callers, readers, the clock and out-of-band writes.
Next ==
    \/ HonestSubmit
    \/ \E c \in Calls : Settle(c)
    \/ \E h \in 0..MaxCalls : GetBlockByHeight(h)
    \/ GetAnyBlockByHash
    \/ \E a \in QueryAddresses : GetStarsByWalletAddress(a)
    \/ ValidateChainCall
    \/ InitializeChain
    \/ GetChainHeight
    \/ Tick
    \/ TamperAny

Spec == Init /\ [][Next]_vars

\* One caller, who waits for each result, handing in arbitrary challenges
\* and signatures.
AnySubmit ==
    /\ nextId <= MaxSubmits
    /\ InFlight = {}
    /\ \E a \in Addresses, st \in Stars :
          \E m \in Messages(a, now) : \E s \in Signatures(m) :
             SubmitStar(a, m, s, st)

NextSubmit ==
    \/ AnySubmit
    \/ \E c \in Calls : Settle(c)
    \/ \E h \in 0..MaxCalls : GetBlockByHeight(h)
    \/ GetChainHeight
    \/ Tick

SpecSubmit == Init /\ [][NextSubmit]_vars

\* ------------------------------------------------------------ properties
Ids(ch) == [i \in 1..Len(ch) |-> ch[i].id]

\* no append has been started since construction and nothing was written
\* out of band
Fresh == nextId = 1 /\ ~tampered

\* C1: As long as nothing but the constructor has appended, height is 0, the
\* chain holds exactly the genesis block, which has no previous hash, and
\* validateChain reports no violation.
ThmC1 ==
    Fresh =>
        /\ height = 0
        /\ Len(chain) = 1
        /\ chain[1].height = 0
        /\ chain[1].previousBlockHash = NullHash
        /\ Decode(chain[1].body) = GenesisData
        /\ ValidateChain(chain) = ValidMessage

\* the state the constructor returns in
WitC1 == Fresh /\ calls[0].pc = "await" /\ Len(chain) = 1

\* C2: Without out-of-band writes, once N appends have been started and
\* every one of them has resolved, height is N and validateChain reports no
\* violation.
ThmC2 ==
    (~tampered /\ InFlight = {} /\ nResolved = nextId - 1) =>
        /\ height = nResolved
        /\ ValidateChain(chain) = ValidMessage

WitC2 == ~tampered /\ InFlight = {} /\ nResolved = nextId - 1 /\ nResolved >= 2

\* C3: The block at index i of the chain has height i, and without
\* out-of-band writes the previousBlockHash of every block after the first
\* is the stored hash of the block before it.
ThmC3 ==
    /\ \A i \in 1..Len(chain) : chain[i].height = i - 1
    /\ ~tampered =>
          \A i \in 2..Len(chain) :
              chain[i].previousBlockHash = chain[i - 1].hash

WitC3 == ~tampered /\ Len(chain) >= 3 /\ Cardinality(InFlight) >= 2

\* the step in which call c's continuation after the await runs
SettleStep(c) == calls[c].pc = "await" /\ calls'[c].pc = "done"

\* C4: When an append that had no other append in flight beside it is
\* rejected with a violation list, the chain holds the same block objects
\* as before the append started (and the same contents when nothing was
\* written out of band meanwhile), the height is what it was, and the
\* caller receives the violation list.
ThmC4 ==
    [][\A c \in Calls :
          (SettleStep(c) /\ calls[c].alone /\ IsViolationList(calls[c].errorLog)) =>
              /\ height' = calls[c].preHeight
              /\ Ids(chain') = Ids(calls[c].preChain)
              /\ calls[c].quiet => chain' = calls[c].preChain
              /\ ret'.kind = "rejected"
              /\ ret'.tag = "violations"
              /\ ret'.value = calls[c].errorLog.log
              /\ Len(ret'.value) > 0]_vars

WitC4 ==
    /\ ret.tag = "violations"
    /\ ret.kind = "rejected"
    /\ ret.alone
    /\ Len(chain) >= 1

\* C5: No block that a read operation has returned is afterwards removed
\* from the chain by the rollback of the append that pushed it.
CexC5 ==
    [][\A i \in 1..Len(chain) :
          chain[i].id \in seen =>
              \E j \in 1..Len(chain') : chain'[j].id = chain[i].id]_vars

\* C6: At most one append is between its first step and its rollback
\* decision at any time, and no two appends in flight hold the same height.
CexC6 ==
    /\ Cardinality(InFlight) <= 1
    /\ \A c1 \in InFlight : \A c2 \in InFlight :
          c1 # c2 => calls[c1].block.height # calls[c2].block.height

\* the embedded timestamp of message m is a number and its age at clock
\* reading ms is at least n seconds
AgeAtLeast(m, ms, n) ==
    /\ ~MessageTime(m).nan
    /\ ~CurrentTime(ms).nan
    /\ CurrentTime(ms).val - MessageTime(m).val >= n

\* the embedded timestamp of message m is a number and its age at clock
\* reading ms is less than n seconds
AgeBelow(m, ms, n) ==
    /\ ~MessageTime(m).nan
    /\ ~CurrentTime(ms).nan
    /\ CurrentTime(ms).val - MessageTime(m).val < n

LedgerUntouched == UNCHANGED <<chain, height, calls, nextId>>

\* C7: submitStar with a challenge 300 seconds old or older is rejected with
\* the expired error whatever the signature, without verifying the
\* signature and without touching chain or height.
ThmC7 ==
    [][\A a \in Addresses : \A m \in Messages(a, now) :
          AgeAtLeast(m, now, 300) =>
              \A s \in Signatures(m), st \in Stars :
                  SubmitStar(a, m, s, st) =>
                      /\ ret'.tag = "error"
                      /\ ret'.kind = "rejected"
                      /\ ret'.value = ExpiredError
                      /\ ~ret'.verifyCalled
                      /\ LedgerUntouched]_vars

WitC7 == ret.tag = "error" /\ ret.value = ExpiredError

\* C8: submitStar with a fresh challenge is rejected with the
\* invalid-signature error when verification returns false and with the
\* exception's message when verification throws; neither touches chain or
\* height.
ThmC8 ==
    [][\A a \in Addresses : \A m \in Messages(a, now) :
          AgeBelow(m, now, 300) =>
              \A s \in Signatures(m), st \in Stars :
                  (Verify(m, a, s) # "true" /\ SubmitStar(a, m, s, st)) =>
                      /\ ret'.tag = "error"
                      /\ ret'.kind = "rejected"
                      /\ ret'.value = IF Verify(m, a, s) = "false"
                                      THEN InvalidSignatureError
                                      ELSE MalformedError
                      /\ ret'.verifyCalled
                      /\ LedgerUntouched]_vars

WitC8 == ret.tag = "error" /\ ret.value = InvalidSignatureError

\* C9: Every block submitStar has pushed comes from a message whose
\* embedded timestamp parsed to a number less than 300 seconds old at
\* submission, and from a signature that verified.
CexC9 ==
    \A c \in InFlight :
        calls[c].op = "submitStar" =>
            /\ ~MessageTime(calls[c].args.message).nan
            /\ ParseInt(calls[c].block.time).val
                  - MessageTime(calls[c].args.message).val < 300
            /\ Verify(calls[c].args.message, calls[c].args.address,
                      calls[c].args.signature) = "true"

Resolved(c) == calls[c].pc = "done" /\ calls[c].ok

\* C11: The block of every append that has resolved is in the chain, and
\* getBlockByHash of its hash and getBlockByHeight of its height return that
\* very block; a height or hash that no block of the chain has yields the
\* not-found result.
CexC11 ==
    /\ \A c \in Calls :
          Resolved(c) =>
              \E i \in 1..Len(chain) :
                  /\ chain[i].id = c
                  /\ BlockByHeight(chain, chain[i].height).id = c
                  /\ BlockByHash(chain, chain[i].hash).id = c
    /\ \A h \in 0..(MaxCalls + 1) :
          (\A i \in 1..Len(chain) : chain[i].height # h) =>
              BlockByHeight(chain, h) = NotFound
    /\ \A hash \in QueryHashes :
          (\A i \in 1..Len(chain) : chain[i].hash # hash) =>
              BlockByHash(chain, hash) = NotFound

\* the entry getStarsByWalletAddress owes for the star block b
OwedEntry(b) ==
    [owner |-> Str(Decode(b.body).address), star |-> Decode(b.body).star]

\* C12: For every address, the empty string included, every entry
\* getStarsByWalletAddress returns is the {owner, star} of a block above
\* height 0 that was submitted by that address, and every such block has
\* its entry; nothing is returned for the genesis block.  (Stated for
\* ledgers without out-of-band writes, whose payloads are the submitted
\* ones.)
CexC12 ==
    ~tampered =>
        \A a \in QueryAddresses :
            LET r == StarsByWallet(chain, a).list
                owned == {i \in 1..Len(chain) :
                            /\ chain[i].height > 0
                            /\ Decode(chain[i].body).address = a}
            IN  /\ \A k \in 1..Len(r) :
                      \E i \in owned : r[k] = OwedEntry(chain[i])
                /\ \A i \in owned :
                      \E k \in 1..Len(r) : r[k] = OwedEntry(chain[i])

\* some block of ch is corrupted: its stored hash or its payload is not
\* what it was hashed with
Corrupted(ch) == \E i \in 1..Len(ch) : ~BlockValidate(ch[i])

\* no violation in the list of call c blames the block c pushed
NewBlockBlameless(c) ==
    \A k \in 1..Len(calls[c].errorLog.log) : calls[c].errorLog.log[k].block # c

\* C13: An append to a ledger that held a corrupted block when the
\* append started, and whose own block causes no violation, resolves and
\* its block stays in the chain.
CexC13 ==
    [][\A c \in Calls :
          (/\ SettleStep(c)
           /\ calls[c].op = "submitStar"
           /\ Corrupted(calls[c].preChain)
           /\ NewBlockBlameless(c)) =>
              /\ ret'.kind = "resolved"
              /\ \E i \in 1..Len(chain') : chain'[i].id = c]_vars

\* the step is an out-of-band write to the stored hash or the payload of
\* the block at position k
WriteStep(k) ==
    /\ k <= Len(chain)
    /\ k <= Len(chain')
    /\ chain'[k].id = chain[k].id
    /\ \/ chain'[k].hash # chain[k].hash
       \/ chain'[k].body # chain[k].body

CexC15 ==
    [][\A c \in Calls :
          (calls'[c].pc = "done" /\ calls'[c].ok) =>
              \E i \in 1..Len(chain') :
                  /\ chain'[i].id = c
                  /\ chain'[i].height = i - 1
                  /\ Resolved(c) => (i <= Len(chain) /\ chain[i].id = c)]_vars

\* C17: When an append is rejected while another append is in flight, the
\* block its rollback removes is the block it pushed itself.
CexC17 ==
    [][\A c \in Calls :
          (/\ SettleStep(c)
           /\ IsViolationList(calls[c].errorLog)
           /\ Cardinality(InFlight) >= 2) =>
              /\ Len(chain') = Len(chain) - 1
              /\ chain[Len(chain)].id = c
              /\ \A j \in 1..Len(chain') : chain'[j].id # c]_vars

\* exactly one block of the chain has height 0, and it is the block the
\* constructor's call pushed, at the head of the chain
GenesisOnce ==
    /\ Cardinality({i \in 1..Len(chain) : chain[i].height = 0}) = 1
    /\ chain[1].height = 0
    /\ chain[1].id = 0
    /\ chain[1].previousBlockHash = NullHash

\* C16: In every state after construction exactly one block has height 0,
\* the genesis block; and a further call of initializeChain appends no block
\* and leaves chain and height as they are.
ThmC16 ==
    [][/\ GenesisOnce
       /\ GenesisOnce'
       /\ InitializeChain =>
             /\ UNCHANGED <<chain, height, calls, nextId>>
             /\ ret' = NothingAppended]_vars

\* initializeChain has been called again on a ledger that holds star blocks
WitC16 == ret = NothingAppended /\ Len(chain) >= 2

\* C18: In every state in which another operation can run, that is between
\* any two steps, height is the number of blocks in the chain minus one.
ThmC18 == height = Len(chain) - 1

\* an append has just been rolled back while another is still waiting
WitC18 ==
    /\ ret.tag = "violations"
    /\ InFlight # {}
    /\ height = Len(chain) - 1

RECURSIVE Ascending(_)
\* the numbers of S in increasing order, which for calls is the order in
\* which they pushed
Ascending(S) ==
    IF S = {} THEN <<>>
    ELSE LET m == CHOOSE x \in S : \A y \in S : x <= y
         IN  <<m>> \o Ascending(S \ {m})

\* C19: Once all the appends that were in flight together have settled, and
\* no out-of-band write fell between the first push and the last
\* settlement, the chain is the chain they started from followed by the
\* blocks of those that resolved, in the order they pushed, with
\* consecutive heights.
ThmC19 ==
    (InFlight = {} /\ batch.clean) =>
        /\ Ids(chain) =
              batch.base \o Ascending({c \in batch.first..(nextId - 1) : Resolved(c)})
        /\ \A i \in 1..Len(chain) : chain[i].height = i - 1

\* two appends that overlapped have both been rejected
WitC19 ==
    /\ InFlight = {}
    /\ batch.clean
    /\ nextId - batch.first >= 2
    /\ \A c \in batch.first..(nextId - 1) : ~Resolved(c)

====
